---- MODULE Spec2Model ----
(***************************************************************************)
(* Model of the priority-tiered load-shedding selection of                 *)
(* src/Load_Shedding.py: generate_combinations (the subset matcher) and    *)
(* find_combination (the tiered selector).                                 *)
(*                                                                         *)
(* A load is a record [id, real_power, priority, selected]; id stands for  *)
(* the identity of the Python Node object.  A catalog is a function from   *)
(* the keys present in nodes_by_priority to the sequence of loads of that  *)
(* tier.  Python's None is the empty sequence <<>> and a value v that may  *)
(* be None is the one-element sequence <<v>>.                              *)
(*                                                                         *)
(* nodes_by_priority, target_real and tolerance are the arguments of one   *)
(* call of find_combination; pc is the position in its body ("call",       *)
(* "loop", "return", then "done" or "raised"); r, selected_nodes,          *)
(* found_valid_combination, nodes_to_check, best_combination and           *)
(* best_power are its locals; result is the returned triple.  calls        *)
(* records every invocation of generate_combinations, trace the states of  *)
(* the selector's state machine passed through, and catalog0 the catalog   *)
(* as it was when the call began.                                          *)
(***************************************************************************)
EXTENDS Integers, Sequences, FiniteSets, TLC

VARIABLES nodes_by_priority, target_real, tolerance,
          pc, r, selected_nodes, found_valid_combination,
          nodes_to_check, best_combination, best_power,
          calls, trace, result, catalog0

vars == <<nodes_by_priority, target_real, tolerance, pc, r, selected_nodes,
          found_valid_combination, nodes_to_check, best_combination,
          best_power, calls, trace, result, catalog0>>

(***************************************************************************)
(* Bounds of the enumerated requests and catalogs.                         *)
(***************************************************************************)
MaxLoads == 2
MaxPower == 2
MaxTarget == 3
MaxTol == 1

None == <<>>
Some(v) == <<v>>

Priorities == 1..5

(***************************************************************************)
(* Node.__init__: selected starts False.                                   *)
(***************************************************************************)
Node(id, real_power, priority) ==
    [id |-> id, real_power |-> real_power, priority |-> priority, selected |-> FALSE]

(***************************************************************************)
(* Python helpers.                                                         *)
(***************************************************************************)
Abs(x) == IF x < 0 THEN 0 - x ELSE x

\* range(start, stop, -1) as a sequence: start, start-1, ..., stop+1.
RangeDown(start, stop) ==
    IF start > stop THEN [i \in 1..(start - stop) |-> start - i + 1] ELSE <<>>

\* range(1, n + 1) as a sequence.
RangeUp(n) == [i \in 1..n |-> i]

\* The tuple c with x put in front.
Cons(x, c) == <<x>> \o c

\* itertools.combinations over positions lo..n, taken k at a time, in the
\* order itertools emits them (lexicographic in the positions).
RECURSIVE CombsFrom(_, _, _)
CombsFrom(lo, n, k) ==
    IF k = 0 THEN << <<>> >>
    ELSE IF n - lo + 1 < k THEN <<>>
    ELSE LET with == CombsFrom(lo + 1, n, k - 1)
         IN  [i \in 1..Len(with) |-> Cons(lo, with[i])] \o CombsFrom(lo + 1, n, k)

\* combinations(nodes, k): tuples of positions of a list of n nodes.
combinations(n, k) == CombsFrom(1, n, k)

\* sum(node.real_power for node in comb)
RECURSIVE SumPower(_, _)
SumPower(nodes, comb) ==
    IF comb = <<>> THEN 0
    ELSE nodes[Head(comb)].real_power + SumPower(nodes, Tail(comb))

\* The band test with the lower comparison left out.
InBandLowerUnchecked(total_power, target, tol) ==
    total_power <= target + tol

\* target_real - tolerance <= total_power <= target_real + tolerance
InBand(total_power, target, tol) ==
    /\ target - tol <= total_power
    /\ total_power <= target + tol

\* The replacement test that keeps the first combination found in the band.
CloserFirstKept(total_power, bestp, target) ==
    bestp = None

\* The replacement test with <= in place of <.
CloserOrEqual(total_power, bestp, target) ==
    \/ bestp = None
    \/ Abs(total_power - target) <= Abs(bestp[1] - target)

\* best_power is None or abs(total_power - target) < abs(best_power - target)
Closer(total_power, bestp, target) ==
    \/ bestp = None
    \/ Abs(total_power - target) < Abs(bestp[1] - target)

\* The body of the inner loop (lines 28-32) for one tuple comb: the pair
\* <<best_combination, best_power>> after it, given the pair before it.
Body(nodes, target, tol, comb, best) ==
    LET total_power == SumPower(nodes, comb)
    IN  IF InBand(total_power, target, tol)
           /\ Closer(total_power, best[2], target)
        THEN <<Some(comb), Some(total_power)>>
        ELSE best

\* The inner loop (line 27) over the tuples combs[i..] of one size, from
\* the pair best kept so far.
RECURSIVE InnerLoop(_, _, _, _, _, _)
InnerLoop(nodes, target, tol, combs, i, best) ==
    IF i > Len(combs) THEN best
    ELSE InnerLoop(nodes, target, tol, combs, i + 1,
                   Body(nodes, target, tol, combs[i], best))

\* The sizes the outer loop runs over: range(1, len(nodes) + 1).
Sizes(nodes) == RangeUp(Len(nodes))

\* The outer loop (line 26) over the sizes sizes[j..], from the pair best.
RECURSIVE OuterLoop(_, _, _, _, _, _)
OuterLoop(nodes, target, tol, sizes, j, best) ==
    IF j > Len(sizes) THEN best
    ELSE OuterLoop(nodes, target, tol, sizes, j + 1,
                   InnerLoop(nodes, target, tol,
                             combinations(Len(nodes), sizes[j]), 1, best))

\* generate_combinations(nodes, target_real, tolerance): the pair
\* <<best_combination, best_power>>, each None or Some; lines 22-23 set
\* both to None before the loops.
generate_combinations(nodes, target, tol) ==
    OuterLoop(nodes, target, tol, Sizes(nodes), 1, <<None, None>>)

\* Python truth of best_combination: None and the empty tuple are false.
Truthy(bc) == bc # None /\ bc[1] # <<>>

(***************************************************************************)
(* find_combination.                                                       *)
(***************************************************************************)
\* The priorities collected at radius rad: range(5, 6 - rad, -1).
PoolPriorities(rad) == RangeDown(5, 6 - rad)

\* The first priority of the inner loop that is no key of the mapping
\* (nodes_by_priority[priority] raises KeyError there), or 0 if none.
RECURSIVE MissingKey(_, _, _)
MissingKey(cat, prios, i) ==
    IF i > Len(prios) THEN 0
    ELSE IF prios[i] \notin DOMAIN cat THEN prios[i]
    ELSE MissingKey(cat, prios, i + 1)

\* nodes_to_check after the inner loop: the tiers extended in loop order.
RECURSIVE Extend(_, _, _)
Extend(cat, prios, i) ==
    IF i > Len(prios) THEN <<>>
    ELSE cat[prios[i]] \o Extend(cat, prios, i + 1)

NodesToCheck(cat, rad) == Extend(cat, PoolPriorities(rad), 1)

\* The update that adds every node of the list handed to the matcher.
NodesOfPool(nodes, comb) == {nodes[i] : i \in 1..Len(nodes)}

\* The nodes selected_nodes.update(best_combination) adds.
NodesOf(nodes, comb) == {nodes[comb[i]] : i \in 1..Len(comb)}

\* One invocation of generate_combinations at line 57: the radius, the list
\* handed over and the pair returned.
Call(rad, nodes, res) ==
    [r |-> rad, nodes |-> nodes, best_combination |-> res[1], best_power |-> res[2]]

\* States of the selector's state machine, as <<name, radius>>.
SEARCHING(rad) == <<"SEARCHING", rad>>
SATISFIED == <<"SATISFIED", 0>>
UNSATISFIED == <<"UNSATISFIED", 0>>
FAULT == <<"FAULT", 0>>

(***************************************************************************)
(* The catalogs and requests the runs start from.                          *)
(***************************************************************************)
Powers == 0..MaxPower
Targets == (0 - 1)..MaxTarget
Tolerances == (0 - 1)..MaxTol

\* A tier list given by its ratings, with ids base+1, base+2, ...
Tier(priority, base, ratings) ==
    [i \in 1..Len(ratings) |-> Node(base + i, ratings[i], priority)]

\* Lists of at most MaxLoads <<priority, rating>> pairs, tiers in ascending
\* order, so that each catalog is listed once.
LoadLists ==
    {l \in UNION {[1..n -> Priorities \X Powers] : n \in 0..MaxLoads} :
        \A i \in 1..(Len(l) - 1) : l[i][1] <= l[i + 1][1]}

\* The mapping with the given keys that holds the loads of list l.
CatalogOf(l, keys) ==
    [k \in keys |->
        LET before == Cardinality({i \in 1..Len(l) : l[i][1] < k})
            mine == SelectSeq(l, LAMBDA p : p[1] = k)
        IN  [i \in 1..Len(mine) |-> Node(before + i, mine[i][2], k)]]

\* The key sets of the enumerated mappings: all five tiers, tier 1 missing,
\* only tier 5, and the empty mapping {}.
KeySets == {Priorities, 2..5, {5}, {}}

Catalogs ==
    {CatalogOf(l, keys) : <<l, keys>> \in
        {x \in LoadLists \X KeySets : \A i \in 1..Len(x[1]) : x[1][i][1] \in x[2]}}

\* Tier 5 of the catalog the program builds, the other tiers empty.
Tier5Catalog ==
    [k \in Priorities |-> IF k = 5 THEN Tier(5, 11, <<90, 100, 110>>) ELSE <<>>]

\* The same loads in a mapping that has the key 5 only.
Tier5Only == (5 :> Tier(5, 11, <<90, 100, 110>>))

\* Requests on the program's tier 5: <<catalog, target, tolerance>>.
Scenarios ==
    ({Tier5Catalog} \X {0, 95, 100, 190, 200, 205, 300, 500} \X {0, 5, 20})
    \cup {<<Tier5Only, 200, 20>>}

Requests == (Catalogs \X Targets \X Tolerances) \cup Scenarios

Init ==
    /\ \E q \in Requests :
        /\ nodes_by_priority = q[1]
        /\ target_real = q[2]
        /\ tolerance = q[3]
    /\ catalog0 = nodes_by_priority
    /\ pc = "call"
    /\ r = 0
    /\ selected_nodes = {}
    /\ found_valid_combination = FALSE
    /\ nodes_to_check = <<>>
    /\ best_combination = None
    /\ best_power = None
    /\ calls = <<>>
    /\ trace = <<>>
    /\ result = None

\* Lines 46-50: the locals are set and the loop starts at r = 5.
Enter ==
    /\ pc = "call"
    /\ selected_nodes' = {}
    /\ found_valid_combination' = FALSE
    /\ r' = 5
    /\ pc' = "loop"
    /\ trace' = Append(trace, SEARCHING(5))
    /\ UNCHANGED <<nodes_by_priority, target_real, tolerance, nodes_to_check,
                   best_combination, best_power, calls, result, catalog0>>

\* Lines 52-54 when a priority of the inner loop is no key of the mapping:
\* nodes_by_priority[priority] raises KeyError and the call ends.
IterKeyError ==
    /\ pc = "loop"
    /\ MissingKey(nodes_by_priority, PoolPriorities(r), 1) # 0
    /\ pc' = "raised"
    /\ trace' = Append(trace, FAULT)
    /\ UNCHANGED <<nodes_by_priority, target_real, tolerance, r, selected_nodes,
                   found_valid_combination, nodes_to_check, best_combination,
                   best_power, calls, result, catalog0>>

\* Lines 52-63 when the matcher returns a combination: it is added to
\* selected_nodes and the loop is left.
IterFound ==
    /\ pc = "loop"
    /\ MissingKey(nodes_by_priority, PoolPriorities(r), 1) = 0
    /\ \E pool \in {NodesToCheck(nodes_by_priority, r)} :
       \E res \in {generate_combinations(pool, target_real, tolerance)} :
           /\ Truthy(res[1])
           /\ nodes_to_check' = pool
           /\ calls' = Append(calls, Call(r, pool, res))
           /\ best_combination' = res[1]
           /\ best_power' = res[2]
           /\ selected_nodes' = selected_nodes \cup NodesOf(pool, res[1][1])
    /\ found_valid_combination' = TRUE
    /\ pc' = "return"
    /\ trace' = Append(trace, SATISFIED)
    /\ UNCHANGED <<nodes_by_priority, target_real, tolerance, r, result, catalog0>>

\* Lines 52-59 when the matcher returns no combination: the loop goes on to
\* r - 1, or ends after r = 1.
IterNotFound ==
    /\ pc = "loop"
    /\ MissingKey(nodes_by_priority, PoolPriorities(r), 1) = 0
    /\ \E pool \in {NodesToCheck(nodes_by_priority, r)} :
       \E res \in {generate_combinations(pool, target_real, tolerance)} :
           /\ ~Truthy(res[1])
           /\ nodes_to_check' = pool
           /\ calls' = Append(calls, Call(r, pool, res))
           /\ best_combination' = res[1]
           /\ best_power' = res[2]
    /\ IF r > 1
       THEN /\ r' = r - 1
            /\ pc' = "loop"
            /\ trace' = Append(trace, SEARCHING(r - 1))
       ELSE /\ r' = r
            /\ pc' = "return"
            /\ trace' = Append(trace, UNSATISFIED)
    /\ UNCHANGED <<nodes_by_priority, target_real, tolerance, selected_nodes,
                   found_valid_combination, result, catalog0>>

\* Line 66: return selected_nodes, best_power, found_valid_combination.
Return ==
    /\ pc = "return"
    /\ result' = Some(<<selected_nodes, best_power, found_valid_combination>>)
    /\ pc' = "done"
    /\ UNCHANGED <<nodes_by_priority, target_real, tolerance, r, selected_nodes,
                   found_valid_combination, nodes_to_check, best_combination,
                   best_power, calls, trace, catalog0>>

Next ==
    \/ Enter
    \/ IterKeyError
    \/ IterFound
    \/ IterNotFound
    \/ Return

Spec == Init /\ [][Next]_vars

(***************************************************************************)
(* Vocabulary of the properties.  Subsets are sets of positions or sets of *)
(* loads, summed without reference to the enumeration above.               *)
(***************************************************************************)
NonEmptySubsets(S) == (SUBSET S) \ {{}}

RECURSIVE PowerOfPositions(_, _)
PowerOfPositions(nodes, S) ==
    IF S = {} THEN 0
    ELSE LET x == CHOOSE y \in S : TRUE
         IN  nodes[x].real_power + PowerOfPositions(nodes, S \ {x})

RECURSIVE PowerOfLoads(_)
PowerOfLoads(L) ==
    IF L = {} THEN 0
    ELSE LET x == CHOOSE y \in L : TRUE
         IN  x.real_power + PowerOfLoads(L \ {x})

WithinBand(total) ==
    /\ total >= target_real - tolerance
    /\ total <= target_real + tolerance

Deviation(total) ==
    IF total >= target_real THEN total - target_real ELSE target_real - total

\* The position sets of a list whose sum is inside the tolerance band.
MatchingSubsets(nodes) ==
    {S \in NonEmptySubsets(1..Len(nodes)) : WithinBand(PowerOfPositions(nodes, S))}

\* The elements of a tuple, and the tuple of a position set in ascending order.
ElementsOf(t) == {t[i] : i \in 1..Len(t)}

AscendingTuple(S) ==
    CHOOSE t \in [1..Cardinality(S) -> S] :
        \A i, j \in 1..Cardinality(S) : i < j => t[i] < t[j]

\* Tuple a is enumerated before tuple b: smaller size first, and within a
\* size the lexicographic order of the positions.
EnumeratedBefore(a, b) ==
    \/ Len(a) < Len(b)
    \/ /\ Len(a) = Len(b)
       /\ \E k \in 1..Len(a) :
            /\ a[k] < b[k]
            /\ \A j \in 1..(k - 1) : a[j] = b[j]

\* The loads of the catalog the call was given, by priority.
LoadsOfPriorities(P) ==
    UNION {{catalog0[k][i] : i \in 1..Len(catalog0[k])} : k \in P \cap DOMAIN catalog0}

AllLoads == LoadsOfPriorities(Priorities)

Ended == pc \in {"done", "raised"}

\* The request is valid, and the mapping has the five priorities as keys.
ValidRequest == target_real >= 0 /\ tolerance >= 0
FiveTiers == DOMAIN catalog0 = Priorities

\* The fields of the returned triple.
Selected == result[1][1]
AchievedTotal == result[1][2]
Satisfied == result[1][3]

(***************************************************************************)
(* Properties of generate_combinations, stated of every invocation made.   *)
(***************************************************************************)

\* C4. Matcher soundness: with tolerance >= 0, a returned subset is a
\* non-empty selection of distinct positions of the candidate list,
\* best_total is the sum of its ratings and lies in the tolerance band; the
\* empty subset is never returned, so target 0 with tolerance 0 over
\* positive ratings yields no match.
C4_MatcherSound ==
    tolerance >= 0 =>
        \A c \in 1..Len(calls) :
            LET call == calls[c]
                nodes == call.nodes
            IN  /\ (call.best_combination = None) <=> (call.best_power = None)
                /\ call.best_combination # None =>
                     LET comb == call.best_combination[1]
                     IN  /\ Len(comb) >= 1
                         /\ ElementsOf(comb) \subseteq 1..Len(nodes)
                         /\ Cardinality(ElementsOf(comb)) = Len(comb)
                         /\ call.best_power[1] = PowerOfPositions(nodes, ElementsOf(comb))
                         /\ WithinBand(call.best_power[1])
                /\ (/\ target_real = 0
                    /\ tolerance = 0
                    /\ \A i \in 1..Len(nodes) : nodes[i].real_power > 0)
                   => call.best_combination = None

\* A matcher call with tolerance >= 0 has returned a subset of two or more
\* loads whose total is in the band but not on the target.
C4_Witness ==
    /\ tolerance >= 0
    /\ \E c \in 1..Len(calls) :
        /\ calls[c].best_combination # None
        /\ Len(calls[c].best_combination[1]) >= 2
        /\ calls[c].best_power[1] # target_real

\* C5. Matcher optimality: if some non-empty subset of the candidates is in
\* the band, a subset is returned whose deviation is <= that of every
\* non-empty in-band subset; otherwise (none, none) is returned.  Candidates
\* [90, 100, 110] with target 200 and tolerance 20 return {90, 110}, total 200.
C5_MatcherOptimal ==
    \A c \in 1..Len(calls) :
        LET call == calls[c]
            nodes == call.nodes
            matching == MatchingSubsets(nodes)
        IN  /\ matching = {} =>
                /\ call.best_combination = None
                /\ call.best_power = None
            /\ matching # {} =>
                /\ call.best_combination # None
                /\ call.best_power # None
                /\ \A S \in matching :
                     Deviation(call.best_power[1]) <= Deviation(PowerOfPositions(nodes, S))
            /\ (/\ [i \in 1..Len(nodes) |-> nodes[i].real_power] = <<90, 100, 110>>
                /\ target_real = 200
                /\ tolerance = 20)
               => /\ call.best_combination = Some(<<1, 3>>)
                  /\ call.best_power = Some(200)

\* The matcher was called on [90, 100, 110] with target 200 and tolerance 20,
\* where {90, 100} (190) and {90, 110} (200) are both in the band.
C5_Witness ==
    /\ target_real = 200
    /\ tolerance = 20
    /\ \E c \in 1..Len(calls) :
        /\ [i \in 1..Len(calls[c].nodes) |-> calls[c].nodes[i].real_power] = <<90, 100, 110>>
        /\ {1, 2} \in MatchingSubsets(calls[c].nodes)
        /\ calls[c].best_power = Some(200)

\* C6. Matcher tie-break: among the in-band subsets of minimal deviation the
\* one enumerated first is returned (smaller size first, then lexicographic
\* position order), so an equally close subset met later never replaces it.
C6_TieBreak ==
    \A c \in 1..Len(calls) :
        LET call == calls[c]
            nodes == call.nodes
        IN  call.best_combination # None =>
                LET comb == call.best_combination[1]
                IN  \A S \in MatchingSubsets(nodes) :
                        LET other == AscendingTuple(S)
                        IN  (/\ other # comb
                             /\ Deviation(PowerOfPositions(nodes, S))
                                  <= Deviation(call.best_power[1]))
                            => EnumeratedBefore(comb, other)

\* A matcher call returned a subset while another in-band subset of the
\* same size and one of a larger size had the same deviation.
C6_Witness ==
    \E c \in 1..Len(calls) :
        LET call == calls[c]
            nodes == call.nodes
        IN  /\ call.best_combination # None
            /\ \E S, T \in MatchingSubsets(nodes) :
                /\ S # ElementsOf(call.best_combination[1])
                /\ Cardinality(S) = Len(call.best_combination[1])
                /\ Cardinality(T) > Len(call.best_combination[1])
                /\ Deviation(PowerOfPositions(nodes, S)) = Deviation(call.best_power[1])
                /\ Deviation(PowerOfPositions(nodes, T)) = Deviation(call.best_power[1])

(***************************************************************************)
(* Properties of find_combination.                                         *)
(***************************************************************************)

\* C1. Monotonic escalation: for a valid request on a five-tier catalog, if
\* some non-empty subset made only of priority-5 loads has its sum in the
\* band, the returned set contains no load of priority 4, 3, 2 or 1.
C1_MonotonicEscalation ==
    (/\ pc = "done"
     /\ ValidRequest
     /\ FiveTiers
     /\ \E L \in NonEmptySubsets(LoadsOfPriorities({5})) : WithinBand(PowerOfLoads(L)))
    => \A n \in Selected : n.priority = 5

\* C2. For a valid request on a five-tier catalog the pools handed to the
\* matcher are, in order of invocation, the
\* loads of priority {5}, {4,5}, {3,4,5}, {2,3,4,5}, {1,2,3,4,5}: the first
\* sees only priority-5 loads, each later pool contains the previous one,
\* and the fifth is the full catalog.
C2_PoolSequence ==
    (ValidRequest /\ FiveTiers) =>
        \A c \in 1..Len(calls) :
            /\ ElementsOf(calls[c].nodes) = LoadsOfPriorities((6 - c)..5)
            /\ c > 1 => ElementsOf(calls[c - 1].nodes) \subseteq ElementsOf(calls[c].nodes)
            /\ c = 5 => ElementsOf(calls[c].nodes) = AllLoads

\* C3. Completeness over the full catalog: for a valid request on a
\* five-tier catalog the call
\* returns satisfied = true if and only if some non-empty subset of the
\* loads of all five tiers has its sum in the band.
C3_CompleteOverCatalog ==
    (/\ pc = "done"
     /\ ValidRequest
     /\ FiveTiers)
    => (Satisfied <=> \E L \in NonEmptySubsets(AllLoads) : WithinBand(PowerOfLoads(L)))

\* C7. A request with target_power < 0 or tolerance < 0 (on a five-tier
\* catalog) is rejected before any search: the matcher is never invoked, no load is selected, and the
\* call ends neither as a match nor as 'no satisfying subset'.
C7_InvalidRejected ==
    (FiveTiers /\ (target_real < 0 \/ tolerance < 0))
    => /\ calls = <<>>
       /\ selected_nodes = {}
       /\ ~found_valid_combination
       /\ \A i \in 1..Len(trace) : trace[i] \notin {SATISFIED, UNSATISFIED}

\* C8. Empty-catalog boundary: when every tier is empty, the empty mapping
\* {} included, the call returns ({}, none, false) for any valid target and
\* tolerance, raises no fault and enumerates no subset.
C8_EmptyCatalog ==
    (ValidRequest /\ \A k \in DOMAIN catalog0 : catalog0[k] = <<>>)
    => /\ pc # "raised"
       /\ pc = "done" => result = Some(<<{}, None, FALSE>>)
       /\ \A c \in 1..Len(calls) : calls[c].nodes = <<>>

\* C9. Selector state machine, for a valid request: a run starts in
\* SEARCHING(5); it moves from SEARCHING(r) to SEARCHING(r-1) only after the
\* matcher failed at r > 1, to
\* SATISFIED at the first radius whose matcher call returns a subset, whose
\* subset and total it returns, and to UNSATISFIED only after a failure at
\* radius 1; the matcher is invoked at most once per radius, at most 5 times
\* and never after a success; every run that has ended is in SATISFIED or
\* UNSATISFIED.
C9_StateMachine ==
    ValidRequest =>
        /\ trace # <<>> => trace[1] = SEARCHING(5)
        /\ \A i \in 1..(Len(trace) - 1) :
            /\ trace[i][1] = "SEARCHING"
            /\ i <= Len(calls)
            /\ calls[i].r = trace[i][2]
            /\ \/ /\ trace[i + 1] = SEARCHING(trace[i][2] - 1)
                  /\ trace[i][2] > 1
                  /\ calls[i].best_combination = None
               \/ /\ trace[i + 1] = SATISFIED
                  /\ calls[i].best_combination # None
               \/ /\ trace[i + 1] = UNSATISFIED
                  /\ trace[i][2] = 1
                  /\ calls[i].best_combination = None
        /\ Len(calls) <= 5
        /\ \A i, j \in 1..Len(calls) : i # j => calls[i].r # calls[j].r
        /\ \A i \in 1..(Len(calls) - 1) : calls[i].best_combination = None
        /\ (pc = "done" /\ trace[Len(trace)] = SATISFIED) =>
            LET call == calls[Len(calls)]
            IN  /\ Selected = {call.nodes[call.best_combination[1][i]] :
                                  i \in 1..Len(call.best_combination[1])}
                /\ AchievedTotal = call.best_power
                /\ Satisfied
        /\ Ended => trace[Len(trace)] \in {SATISFIED, UNSATISFIED}

\* C10. Result consistency: in every returned result, satisfied is true
\* exactly when the selected set is non-empty and exactly when
\* achieved_total is not none; when satisfied, every selected load is a load
\* of the input catalog, achieved_total is the sum of the selected ratings
\* and lies in the band; the catalog is the same after the call as before.
C10_ResultConsistent ==
    pc = "done" =>
        /\ Satisfied <=> Selected # {}
        /\ Satisfied <=> AchievedTotal # None
        /\ Satisfied =>
            /\ Selected \subseteq AllLoads
            /\ AchievedTotal[1] = PowerOfLoads(Selected)
            /\ WithinBand(AchievedTotal[1])
        /\ nodes_by_priority = catalog0

\* A call has returned satisfied with two or more loads selected, at least
\* one left unselected in the list the matcher was given.
C10_Witness ==
    /\ pc = "done"
    /\ Satisfied
    /\ Cardinality(Selected) >= 2
    /\ ElementsOf(nodes_to_check) # Selected

====
